---- MODULE Spec2Model ----
(***************************************************************************)
(* Conversation-lifecycle core of the AI-Chatbot repository: the tables    *)
(* and stored procedures of src/query.sql, run by concurrent database      *)
(* connections.                                                            *)
(*                                                                         *)
(* Every stored procedure runs as one PostgreSQL transaction (READ         *)
(* COMMITTED).  Its writes become visible to the other connections at      *)
(* commit, and an UPDATE or an INSERT .. ON CONFLICT holds the lock of the *)
(* row it touched until commit.  A procedure whose statements neither read *)
(* other rows nor wait between two observable points is one action, taken  *)
(* at its commit.  create_or_get_session is split between its SELECT of    *)
(* the user's sessions and the INSERT that depends on what the SELECT      *)
(* found; it holds the lock of the user row in between.  agent_takeover is *)
(* split into the arrival of the call and the execution of its statements: *)
(* the UPDATE of the session row waits for the row lock, so that the       *)
(* statements of two takeovers of one session run one after the other,     *)
(* each seeing what the other committed.                                   *)
(* NOW() is the start time of the transaction.  The columns that no        *)
(* procedure writes after the INSERT of the row (id, channel, metadata,    *)
(* resolved_at, agents.name, email and created_at) are left out of the     *)
(* rows; an event's metadata is its agent_id.                              *)
(*                                                                         *)
(* The agent console is component App of the agent console (second half of *)
(* src/frontend/owner-dashboard/src/App.jsx): its React state, the         *)
(* WebSocket objects it creates and the reconnect timers it sets.  An      *)
(* event handler, the render that follows it and the effects of that       *)
(* render are one action.  A handler of a socket reads the isAuthenticated *)
(* and agentInfo of the render in which connectWebSocket was defined, not  *)
(* the current ones.  The gateway the console talks to has no code in the  *)
(* repository: it keeps the pending escalations, sends them to a console   *)
(* that connects and sends every change to every console connected, and   *)
(* it may send an escalation again.  handleTakeover is two actions, the    *)
(* part up to its await and the part that handles the response.            *)
(*                                                                         *)
(* The halves are specifications over one state: Spec runs the stored      *)
(* procedures, SpecCosts runs log_api_cost with the procedures that make   *)
(* the rows it refers to, SpecConsole runs the console, FairSpecConsole    *)
(* adds the fairness of the browser's event loop, and SpecKeepalive adds   *)
(* the ping interval of the console and the idle detection of the gateway. *)
(* MaxInputs bounds the events that reach a console from outside in one    *)
(* run, whatever their kind.                                               *)
(***************************************************************************)
EXTENDS Integers, Sequences, FiniteSets, TLC

\* ---- bounds of the model ------------------------------------------------
NumProcs == 2          \* concurrent database connections
NumUsers == 1          \* distinct (channel, channel_user_id) pairs
NumAgents == 2         \* rows of table agents
NumNames == 2          \* distinct non-null p_user_name values
NumCategories == 2     \* distinct p_category values
NumReasons == 1        \* distinct non-null p_reason values
MaxSessions == 2       \* rows of table sessions
MaxEvents == 3         \* rows of table events
MaxClock == 2          \* values of the wall clock
MaxCalls == 5          \* calls of stored procedures in one run
MaxLimit == 2          \* the largest p_limit of a history call
MaxCosts == 2          \* rows of table conversation_costs
MaxLogins == 2         \* logins of the agent at the console in one run
MaxCloses == 1         \* connections the network refuses or closes
MaxNotices == 2        \* messages the gateway publishes to the consoles
MaxInputs == 4         \* logins, closes, messages published and intervals
MaxIntervals == 2      \* keepalive intervals that elapse in one run

NULL == 0

\* the intervals without traffic after which the gateway drops a connection
IdleMultiple == 2

Procs == 1..NumProcs
UserKeys == 1..NumUsers
Agents == 1..NumAgents
\* agent ids a caller can present (agent_id from the JWT); the last one has
\* no row in table agents
AgentIds == 1..(NumAgents + 1)
\* session ids a caller can present; an id above Len(sessions) names no row
SessionIds == 1..MaxSessions
\* the values of p_session_id in the calls of log_event and
\* set_session_category: an id, or NULL
SessionArgs == SessionIds \cup {NULL}
Names == 0..NumNames
Categories == 1..NumCategories
Reasons == 0..NumReasons

\* users, sessions, events, agents: the committed rows of the four tables
\* clock: the wall clock; procs: the transaction each connection is in
\* lastOp: the call (or step of a call) that produced the current state and
\*   what it returned
\* accepted[s]: the agents whose takeover of s, called while s was escalated
\*   and unassigned, returned true
\* lastGoc[u]: the session id the last create_or_get_session of user u
\*   returned, NULL once u has no active or escalated session
\* calls: the number of calls made so far
VARIABLES users, sessions, events, agents, clock, procs, lastOp, accepted,
          lastGoc, calls

\* costs: the committed rows of table conversation_costs
VARIABLE costs

\* the agent console (App.jsx) and what it talks to
\* ui: the React state of the component App
\* reconnectTimeoutRef: the ref of that name, a timer id or NULL
\* effectWs: the value of ws that the cleanup of the connect effect holds
\* sockets: the WebSocket objects created so far, by order of creation
\* timers: the reconnect timers set so far, by order of creation
\* gateway: the pending escalations the gateway publishes
\* budget: logins, closes, notices and keepalive intervals so far
\* cop: the last step of the console
VARIABLES ui, reconnectTimeoutRef, effectWs, sockets, timers, gateway,
          budget, cop

store == <<users, sessions, events, agents, clock, procs, lastOp, accepted,
           lastGoc, calls, costs>>

cvars == <<ui, reconnectTimeoutRef, effectWs, sockets, timers, gateway,
           budget, cop>>

vars == <<users, sessions, events, agents, clock, procs, lastOp, accepted,
          lastGoc, calls, costs, ui, reconnectTimeoutRef, effectWs, sockets,
          timers, gateway, budget, cop>>

db == <<users, sessions, events, agents>>

\* ---- rows ---------------------------------------------------------------
NoUser == [exists |-> FALSE, name |-> NULL, created_at |-> NULL,
           last_seen_at |-> NULL]

NewSession(u, now) ==
    [user_id |-> u, selected_category |-> NULL, category_selected_at |-> NULL,
     status |-> "active", assigned_agent_id |-> NULL, escalated_at |-> NULL,
     created_at |-> now, updated_at |-> now]

NewEvent(s, type, sender, content, agent, now) ==
    [session_id |-> s, type |-> type, sender |-> sender, content |-> content,
     agent_id |-> agent, created_at |-> now]

NewAgent == [status |-> "offline", current_sessions |-> 0,
             total_takeovers |-> 0, last_active_at |-> 1]

IdleProc == [pc |-> "idle", uid |-> NULL, name |-> NULL, sid |-> NULL,
             agent |-> NULL, now |-> NULL, pre |-> FALSE]

\* a call of op on session s with agent id a, its other argument (p_reason,
\* p_category, p_user_name or p_limit) arg, and what it returned; old is
\* the value the call replaced (the category or the name of before), for
\* the calls that record it
Op(op, s, a, arg, ret) ==
    [op |-> op, sid |-> s, agent |-> a, arg |-> arg, ret |-> ret,
     old |-> NULL]

\* a step of the console: the handler that ran, the socket it belongs to
\* and the message or response it handled; had: the list of escalations
\* held the session of the message before the step
Cop(op, k, m) == [op |-> op, sock |-> k, msg |-> m, had |-> FALSE]

\* ---- helpers ------------------------------------------------------------
SessionExists(s) == s \in DOMAIN sessions

LiveStatus == {"active", "escalated"}

TerminalStatus == {"resolved", "closed"}

\* row lock of a user, held by create_or_get_session from its upsert on
UserLocked(u) ==
    \E p \in Procs : procs[p].pc = "goc" /\ procs[p].uid = u

LiveSessionsOf(u) ==
    {s \in DOMAIN sessions :
        sessions[s].user_id = u /\ sessions[s].status \in LiveStatus}

\* SELECT id .. WHERE user_id = u AND status IN ('active','escalated')
\* ORDER BY created_at DESC LIMIT 1: the rows the query may return
\* (any of the newest ones), {NULL} when there is none
SelectLiveSession(u) ==
    IF LiveSessionsOf(u) = {} THEN {NULL}
    ELSE {s \in LiveSessionsOf(u) :
            \A t \in LiveSessionsOf(u) :
                sessions[t].created_at <= sessions[s].created_at}

InFlight(pcs) == Cardinality({p \in Procs : procs[p].pc \in pcs})

Init ==
    /\ users = [u \in UserKeys |-> NoUser]
    /\ sessions = <<>>
    /\ events = <<>>
    /\ agents = [a \in Agents |-> NewAgent]
    /\ clock = 1
    /\ procs = [p \in Procs |-> IdleProc]
    /\ lastOp = Op("init", NULL, NULL, NULL, "none")
    /\ accepted = [s \in SessionIds |-> {}]
    /\ lastGoc = [u \in UserKeys |-> NULL]
    /\ calls = 0
    /\ costs = <<>>
    /\ ui = [isAuthenticated |-> FALSE, agentToken |-> NULL,
             agentInfo |-> NULL, ws |-> NULL,
             connectionStatus |-> "disconnected", escalations |-> <<>>,
             selectedSession |-> NULL]
    /\ reconnectTimeoutRef = NULL
    /\ effectWs = NULL
    /\ sockets = <<>>
    /\ timers = <<>>
    /\ gateway = [pending |-> {}, replies |-> {}]
    /\ budget = [logins |-> 0, closes |-> 0, notices |-> 0, intervals |-> 0]
    /\ cop = Cop("init", NULL, NULL)

\* a connection makes one more call
NewCall == calls < MaxCalls /\ calls' = calls + 1

\* the wall clock advances
Tick ==
    /\ clock < MaxClock
    /\ clock' = clock + 1
    /\ lastOp' = Op("tick", NULL, NULL, NULL, "none")
    /\ UNCHANGED <<users, sessions, events, agents, procs, accepted, lastGoc,
                   calls>>
    /\ UNCHANGED <<costs, cvars>>

\* lastGoc after a step that leaves the sessions as ss: forgotten for a user
\* without active or escalated session
KeepGoc(ss, g) ==
    [u \in UserKeys |->
        IF \E s \in DOMAIN ss : ss[s].user_id = u /\ ss[s].status \in LiveStatus
        THEN g[u] ELSE NULL]

\* ---- FUNCTION 1: create_or_get_session ----------------------------------
\* INSERT INTO users .. ON CONFLICT DO UPDATE: the row after the upsert
UpsertUser(row, name, now) ==
    IF row.exists
    THEN [row EXCEPT !.last_seen_at = now,
                     !.name = IF name # NULL THEN name ELSE row.name]
    ELSE [exists |-> TRUE, name |-> name, created_at |-> now,
          last_seen_at |-> now]

\* statements 1 and 2: the upsert takes the lock of the user row (it waits
\* while another transaction holds it), the SELECT reads the committed
\* sessions
CreateOrGetSelect(p, u, name) ==
    /\ procs[p].pc = "idle"
    /\ NewCall
    /\ ~UserLocked(u)
    /\ \E v \in SelectLiveSession(u) :
        /\ v = NULL => Len(sessions) + InFlight({"goc"}) < MaxSessions
        /\ procs' = [procs EXCEPT ![p] =
                        [IdleProc EXCEPT !.pc = "goc", !.uid = u,
                                         !.name = name, !.sid = v,
                                         !.now = clock]]
    /\ lastOp' = Op("goc_select", NULL, NULL, NULL, "none")
    /\ UNCHANGED <<users, sessions, events, agents, clock, accepted, lastGoc>>
    /\ UNCHANGED <<costs, cvars>>

\* statements 3 to 5 and commit: INSERT when the SELECT found nothing,
\* UPDATE updated_at, RETURN QUERY of the row
CreateOrGetCommit(p) ==
    LET u == procs[p].uid
        now == procs[p].now
        v == IF procs[p].sid = NULL THEN Len(sessions) + 1 ELSE procs[p].sid
        ss == IF procs[p].sid = NULL
              THEN Append(sessions, NewSession(u, now))
              ELSE [sessions EXCEPT ![v].updated_at = now]
    IN  /\ procs[p].pc = "goc"
        /\ UNCHANGED calls
        /\ users' = [users EXCEPT ![u] = UpsertUser(@, procs[p].name, now)]
        /\ sessions' = ss
        /\ procs' = [procs EXCEPT ![p] = IdleProc]
        /\ lastOp' = [Op("goc", v, NULL, procs[p].name, ss[v].status)
                        EXCEPT !.old = users[u].name]
        /\ lastGoc' = KeepGoc(ss, [lastGoc EXCEPT ![u] = v])
        /\ UNCHANGED <<events, agents, clock, accepted>>
        /\ UNCHANGED <<costs, cvars>>

\* room in table events for one more row, the rows that takeovers in flight
\* will insert counted
EventRoom ==
    Len(events) + InFlight({"takeover"}) < MaxEvents

\* events.session_id REFERENCES sessions(id) and is not declared NOT NULL:
\* an INSERT INTO events passes the foreign key for the id of a session and
\* for NULL, and raises a violation for any other id
EventInsertable(s) == SessionExists(s) \/ s = NULL

\* an INSERT that overwrites the newest row of the table instead of adding one
InsertEvent_Overwrite(e) ==
    IF events = <<>> THEN <<e>> ELSE [events EXCEPT ![Len(events)] = e]

\* table events after INSERT INTO events .. VALUES e: the row gets the next
\* place, no row is touched
InsertEvent(e) == Append(events, e)

\* table sessions after UPDATE sessions SET updated_at = NOW() WHERE id = s
TouchSession(s, now) ==
    IF SessionExists(s)
    THEN [sessions EXCEPT ![s].updated_at = now]
    ELSE sessions

\* ---- FUNCTION 2: log_event ----------------------------------------------
\* the INSERT raises a foreign-key violation when the session does not
\* exist (the transaction aborts).  No procedure interprets p_content and
\* p_metadata: one value stands for them.
LogEvent(p, s, type, sender) ==
    /\ procs[p].pc = "idle"
    /\ NewCall
    /\ IF EventInsertable(s)
       THEN /\ EventRoom
            /\ events' = InsertEvent(
                                NewEvent(s, type, sender, NULL, NULL, clock))
            /\ sessions' = TouchSession(s, clock)
            /\ lastOp' = Op("log_event", s, NULL, NULL, "id")
       ELSE /\ lastOp' = Op("log_event", s, NULL, NULL, "error")
            /\ UNCHANGED <<sessions, events>>
    /\ UNCHANGED <<users, agents, clock, procs, accepted, lastGoc>>
    /\ UNCHANGED <<costs, cvars>>

\* ---- FUNCTION 3: set_session_category -----------------------------------
\* an UPDATE that keeps a category already selected
CategorizedRow_KeepFirst(row, c, now) ==
    [row EXCEPT !.selected_category = IF @ = NULL THEN c ELSE @,
                !.category_selected_at = now, !.updated_at = now]

\* the row of a session after the UPDATE of set_session_category
CategorizedRow(row, c, now) ==
    [row EXCEPT !.selected_category = c, !.category_selected_at = now,
                !.updated_at = now]

\* UPDATE sessions .. WHERE id = p_session_id, RETURN FOUND
SetSessionCategory(p, s, c) ==
    /\ procs[p].pc = "idle"
    /\ NewCall
    /\ IF SessionExists(s)
       THEN /\ sessions' = [sessions EXCEPT ![s] = CategorizedRow(@, c, clock)]
            /\ lastOp' = [Op("set_category", s, NULL, c, "true")
                            EXCEPT !.old = sessions[s].selected_category]
       ELSE /\ lastOp' = Op("set_category", s, NULL, c, "false")
            /\ UNCHANGED sessions
    /\ UNCHANGED <<users, events, agents, clock, procs, accepted, lastGoc>>
    /\ UNCHANGED <<costs, cvars>>

\* ---- FUNCTION 4: escalate_session ---------------------------------------
\* an UPDATE of escalate_session that leaves escalated_at alone
EscalatedRow_NoStamp(row, now) ==
    [row EXCEPT !.status = "escalated", !.updated_at = now]

\* the row of a session after the UPDATE of escalate_session
EscalatedRow(row, now) ==
    [row EXCEPT !.status = "escalated", !.escalated_at = now,
                !.updated_at = now]

\* UPDATE sessions, INSERT INTO events, RETURN FOUND (FOUND is set by the
\* INSERT); the INSERT raises a foreign-key violation when the session does
\* not exist; with p_session_id NULL the UPDATE matches no row and the INSERT
\* is accepted
EscalateSession(p, s, reason) ==
    /\ procs[p].pc = "idle"
    /\ NewCall
    /\ IF EventInsertable(s)
       THEN /\ EventRoom
            /\ sessions' = IF SessionExists(s)
                           THEN [sessions EXCEPT ![s] = EscalatedRow(@, clock)]
                           ELSE sessions
            /\ events' = InsertEvent(
                    NewEvent(s, "escalation", "system", reason, NULL, clock))
            /\ lastOp' = Op("escalate", s, NULL, reason, "true")
            /\ lastGoc' = KeepGoc(sessions', lastGoc)
       ELSE /\ lastOp' = Op("escalate", s, NULL, reason, "error")
            /\ UNCHANGED <<sessions, events, lastGoc>>
    /\ UNCHANGED <<users, agents, clock, procs, accepted>>
    /\ UNCHANGED <<costs, cvars>>

\* ---- FUNCTION 5: agent_takeover -----------------------------------------
\* an UPDATE of agent_takeover that leaves assigned_agent_id alone
TakenOverRow_NoAssign(row, a, now) ==
    [row EXCEPT !.updated_at = now]

\* the row of a session after the UPDATE of agent_takeover
TakenOverRow(row, a, now) ==
    [row EXCEPT !.assigned_agent_id = a, !.updated_at = now]

\* an UPDATE of agents that leaves total_takeovers alone
BusyAgentRow_NoTotal(row, now) ==
    [row EXCEPT !.current_sessions = @ + 1, !.status = "busy",
                !.last_active_at = now]

\* the row of an agent after the UPDATE of agent_takeover
BusyAgentRow(row, now) ==
    [row EXCEPT !.current_sessions = @ + 1, !.total_takeovers = @ + 1,
                !.status = "busy", !.last_active_at = now]

\* table agents after UPDATE agents .. WHERE id = a
UpdateAgents(a, now) ==
    IF a \in Agents
    THEN [agents EXCEPT ![a] = BusyAgentRow(@, now)]
    ELSE agents

\* FOUND after the last statement of agent_takeover, the UPDATE of agents
TakeoverFound(a) == a \in Agents

\* the call arrives and its transaction starts.  For an id that names no
\* session the UPDATE matches nothing and the INSERT INTO events raises a
\* foreign-key violation: the call fails at once.  With p_session_id NULL
\* the UPDATE matches nothing and the INSERT is accepted.
TakeoverCall(p, s, a) ==
    /\ procs[p].pc = "idle"
    /\ NewCall
    /\ IF EventInsertable(s)
       THEN /\ EventRoom
            /\ procs' = [procs EXCEPT ![p] =
                    [IdleProc EXCEPT
                        !.pc = "takeover", !.sid = s, !.agent = a,
                        !.now = clock,
                        !.pre = (/\ SessionExists(s)
                                 /\ sessions[s].status = "escalated"
                                 /\ sessions[s].assigned_agent_id = NULL)]]
            /\ lastOp' = Op("takeover_call", s, a, NULL, "none")
       ELSE /\ lastOp' = Op("takeover", s, a, NULL, "error")
            /\ UNCHANGED procs
    /\ UNCHANGED <<users, sessions, events, agents, clock, accepted, lastGoc>>
    /\ UNCHANGED <<costs, cvars>>

\* the statements of the call, run once the row lock of the session is
\* free: UPDATE sessions, INSERT INTO events, UPDATE agents, RETURN FOUND,
\* commit.  The content of the event is the same text in every takeover;
\* its metadata is the agent id.
TakeoverCommit(p) ==
    LET s == procs[p].sid
        a == procs[p].agent
        now == procs[p].now
        ret == TakeoverFound(a)
    IN  /\ procs[p].pc = "takeover"
        /\ UNCHANGED calls
        /\ sessions' = IF SessionExists(s)
                       THEN [sessions EXCEPT ![s] = TakenOverRow(@, a, now)]
                       ELSE sessions
        /\ events' = InsertEvent(
                NewEvent(s, "takeover", "system", NULL, a, now))
        /\ agents' = UpdateAgents(a, now)
        /\ procs' = [procs EXCEPT ![p] = IdleProc]
        /\ lastOp' = Op("takeover", s, a, NULL,
                        IF ret THEN "true" ELSE "false")
        /\ accepted' = IF ret /\ procs[p].pre
                       THEN [accepted EXCEPT ![s] = @ \cup {a}]
                       ELSE accepted
        /\ UNCHANGED <<users, clock, lastGoc>>
        /\ UNCHANGED <<costs, cvars>>

\* ---- resolve and close (section 4.1 of the specification) ---------------
\* terminal transition of a session: permitted from active and escalated,
\* InvalidState otherwise
Terminate(p, s, op, status) ==
    /\ procs[p].pc = "idle"
    /\ NewCall
    /\ IF SessionExists(s) /\ sessions[s].status \in LiveStatus
       THEN /\ sessions' = [sessions EXCEPT ![s].status = status,
                                            ![s].updated_at = clock]
            /\ lastOp' = Op(op, s, NULL, NULL, "true")
            /\ lastGoc' = KeepGoc(sessions', lastGoc)
       ELSE /\ lastOp' = Op(op, s, NULL, NULL, "error")
            /\ UNCHANGED <<sessions, lastGoc>>
    /\ UNCHANGED <<users, events, agents, clock, procs, accepted>>
    /\ UNCHANGED <<costs, cvars>>

ResolveSession(p, s) == Terminate(p, s, "resolve", "resolved")

CloseSession(p, s) == Terminate(p, s, "close", "closed")

\* ---- the system ---------------------------------------------------------
LogKinds == {<<"user_message", "user">>}

DoCreateOrGetSelect ==
    \E p \in Procs, u \in UserKeys, n \in Names : CreateOrGetSelect(p, u, n)

DoCreateOrGetCommit == \E p \in Procs : CreateOrGetCommit(p)

DoLogEvent ==
    \E p \in Procs, s \in SessionArgs, k \in LogKinds :
        LogEvent(p, s, k[1], k[2])

DoSetSessionCategory ==
    \E p \in Procs, s \in SessionArgs, c \in Categories :
        SetSessionCategory(p, s, c)

DoEscalateSession ==
    \E p \in Procs, s \in SessionIds, r \in Reasons : EscalateSession(p, s, r)

DoTakeoverCall ==
    \E p \in Procs, s \in SessionIds, a \in AgentIds : TakeoverCall(p, s, a)

DoTakeoverCommit == \E p \in Procs : TakeoverCommit(p)

DoResolveSession == \E p \in Procs, s \in SessionIds : ResolveSession(p, s)

DoCloseSession == \E p \in Procs, s \in SessionIds : CloseSession(p, s)

Next ==
    \/ Tick
    \/ DoCreateOrGetSelect
    \/ DoCreateOrGetCommit
    \/ DoLogEvent
    \/ DoSetSessionCategory
    \/ DoEscalateSession
    \/ DoTakeoverCall
    \/ DoTakeoverCommit
    \/ DoResolveSession
    \/ DoCloseSession

Spec == Init /\ [][Next]_vars

TypeOK ==
    /\ clock \in 1..MaxClock
    /\ Len(sessions) <= MaxSessions
    /\ Len(events) <= MaxEvents
    /\ \A a \in Agents : agents[a].current_sessions <= MaxEvents

\* a count of the escalated sessions, assigned or not
PendingEscalations_AnyAgent ==
    {s \in DOMAIN sessions : sessions[s].status = "escalated"}

\* FUNCTION 8, get_realtime_metrics: the sessions counted as
\* escalations_pending
PendingEscalations ==
    {s \in DOMAIN sessions :
        sessions[s].status = "escalated"
        /\ sessions[s].assigned_agent_id = NULL}

\* ---- FUNCTION 6: get_session_history -------------------------------------
Limits == 1..MaxLimit

Min(a, b) == IF a <= b THEN a ELSE b

\* the rows of table events with session_id = s, named by their place in
\* the table (the order they were inserted in)
EventsOf(s) == {i \in DOMAIN events : events[i].session_id = s}

\* SELECT .. FROM events WHERE session_id = s ORDER BY created_at ASC
\* LIMIT limit: the results the query may return.  Rows with the same
\* created_at come in any order, and so does the choice among them at the
\* limit.
GetSessionHistory(s, limit) ==
    LET E == EventsOf(s)
        n == Min(limit, Cardinality(E))
    IN  {h \in [1..n -> E] :
            /\ \A i, j \in 1..n :
                i < j => /\ h[i] # h[j]
                         /\ events[h[i]].created_at <= events[h[j]].created_at
            /\ \A k \in E \ {h[i] : i \in 1..n} :
                \A i \in 1..n :
                    events[h[i]].created_at <= events[k].created_at}

\* the cursor a reader holds after a page: the last event it has seen
LastSeen(page) == IF Len(page) = 0 THEN NULL ELSE page[Len(page)]

\* the page a reader gets who has seen the events up to cursor: the
\* function takes p_session_id and p_limit and nothing else, so the call is
\* the same whatever the reader has seen
HistoryAfter(s, limit, cursor) == GetSessionHistory(s, limit)

\* the first n events of session s in the order they were inserted in
InsertionPrefix(s, n) ==
    {h \in [1..Min(n, Cardinality(EventsOf(s))) -> EventsOf(s)] :
        /\ \A i, j \in DOMAIN h : i < j => h[i] < h[j]
        /\ \A k \in EventsOf(s) \ {h[i] : i \in DOMAIN h} :
            \A i \in DOMAIN h : h[i] < k}

\* ---- FUNCTION 7: log_api_cost ---------------------------------------------
\* the values of p_event_id: an id (one above Len(events) names no row) or
\* NULL
EventArgs == (1..MaxEvents) \cup {NULL}

\* the largest value of type INT
MaxInt == 2147483647

\* the values of p_input_tokens, p_output_tokens and p_cost_usd (in
\* millionths of a dollar) in the calls: counts of zero and of the largest
\* INT, a negative count on either side, an amount of zero, and two counts
\* whose sum is outside INT
CostInputs == {<<0, 0, 1>>, <<MaxInt, 0, 1>>, <<-1, 0, 1>>, <<0, -1, 1>>,
               <<0, 0, 0>>, <<MaxInt, MaxInt, 1>>}

\* p_input_tokens + p_output_tokens is of type INT: a sum outside the type
\* raises 'integer out of range'.  The sum a + b is within the type.
SumInRange(a, b) ==
    IF b >= 0 THEN a <= MaxInt - b ELSE a >= (-MaxInt - 1) - b

EventExists(e) == e \in DOMAIN events

\* conversation_costs.session_id REFERENCES sessions(id) and event_id
\* REFERENCES events(id), neither declared NOT NULL: the INSERT passes the
\* foreign keys for the id of a row and for NULL.  The table has no CHECK
\* on the token counts or on cost_usd.
CostInsertable(s, e, inTok, outTok) ==
    /\ SessionExists(s) \/ s = NULL
    /\ EventExists(e) \/ e = NULL
    /\ SumInRange(inTok, outTok)

NewCost(s, e, inTok, outTok, cost) ==
    [session_id |-> s, event_id |-> e, input_tokens |-> inTok,
     output_tokens |-> outTok, total_tokens |-> inTok + outTok,
     cost_usd |-> cost]

\* table conversation_costs after INSERT INTO conversation_costs .. VALUES c
InsertCost(c) == Append(costs, c)

\* the arguments of a call, as lastOp records them
CostArgs(e, inTok, outTok, cost) ==
    [event_id |-> e, input_tokens |-> inTok, output_tokens |-> outTok,
     cost_usd |-> cost]

\* INSERT INTO conversation_costs, RETURN v_cost_id.  No procedure
\* interprets p_service and p_model: one value stands for them.
LogApiCost(p, s, e, inTok, outTok, cost) ==
    /\ procs[p].pc = "idle"
    /\ NewCall
    /\ IF CostInsertable(s, e, inTok, outTok)
       THEN /\ Len(costs) < MaxCosts
            /\ costs' = InsertCost(NewCost(s, e, inTok, outTok, cost))
            /\ lastOp' = Op("log_api_cost", s, NULL,
                            CostArgs(e, inTok, outTok, cost), "id")
       ELSE /\ lastOp' = Op("log_api_cost", s, NULL,
                            CostArgs(e, inTok, outTok, cost), "error")
            /\ UNCHANGED costs
    /\ UNCHANGED <<users, sessions, events, agents, clock, procs, accepted,
                   lastGoc>>
    /\ UNCHANGED cvars

DoLogApiCost ==
    \E p \in Procs, s \in SessionArgs, e \in EventArgs, i \in CostInputs :
        LogApiCost(p, s, e, i[1], i[2], i[3])

\* the cost ledger and the procedures that make the rows it refers to
CostNext ==
    \/ DoCreateOrGetSelect
    \/ DoCreateOrGetCommit
    \/ DoLogEvent
    \/ DoLogApiCost

SpecCosts == Init /\ [][CostNext]_vars

\* ---- the agent console: component App of the agent console ---------------
\* a message of the gateway to a console: its type, the session it is about
\* and, for initial_escalations, the list it carries
Msg(type, sid, payload) == [type |-> type, sid |-> sid, payload |-> payload]

\* the close event of a socket, queued behind the messages that arrived
\* before it
CloseEvent == Msg("close", NULL, <<>>)

\* new WebSocket(wsUrl) with the handlers connectWebSocket gives it: they
\* read isAuthenticated and agentInfo of the render that defined
\* connectWebSocket.  synced: the socket has handled its initial_escalations.
\* missed: the keepalive intervals gone by since the gateway last had
\* traffic on the connection.
NewSocket(auth, info) ==
    [state |-> "connecting", isAuthenticated |-> auth, agentInfo |-> info,
     inbox |-> <<>>, synced |-> FALSE, missed |-> 0]

\* connectWebSocket of a render with these isAuthenticated and agentInfo
ConnectWebSocket(socks, auth, info) ==
    IF info = NULL THEN socks ELSE Append(socks, NewSocket(auth, info))

\* websocket.close(): the close event follows what has already arrived
CloseSocket(socks, k) ==
    IF k # NULL /\ socks[k].state \in {"connecting", "open"}
    THEN [socks EXCEPT ![k].state = "closing",
                       ![k].inbox = Append(@, CloseEvent)]
    ELSE socks

\* clearTimeout(reconnectTimeoutRef.current)
ClearTimeout(ts, t) ==
    IF t # NULL /\ ts[t].state = "pending"
    THEN [ts EXCEPT ![t].state = "cleared"]
    ELSE ts

\* sessions as the list the gateway sends them in
SeqOf(S) ==
    CHOOSE h \in [1..Cardinality(S) -> S] :
        \A i, j \in DOMAIN h : i < j => h[i] < h[j]

\* the gateway sends m to every console that is connected
Broadcast(socks, m) ==
    [k \in DOMAIN socks |->
        IF socks[k].state = "open"
        THEN [socks[k] EXCEPT !.inbox = Append(@, m)]
        ELSE socks[k]]

\* a handler of 'escalation' that adds the session whatever the list holds
AddEscalation_Always(list, s) == Append(list, s)

\* the list after the handler of 'escalation' for session s
AddEscalation(list, s) ==
    IF \E i \in DOMAIN list : list[i] = s THEN list ELSE Append(list, s)

\* a handler of 'initial_escalations' that keeps what the list holds
LoadEscalations_Merge(list, payload) ==
    list \o SelectSeq(payload,
                      LAMBDA e : \A i \in DOMAIN list : list[i] # e)

\* setEscalations(message.payload || [])
LoadEscalations(list, payload) == payload

\* the run has room for one more event from outside the console: a login,
\* a connection the network closes, a message the gateway publishes, a
\* keepalive interval that elapses
InputRoom ==
    budget.logins + budget.closes + budget.notices + budget.intervals
        < MaxInputs

\* a filter that keeps every entry
RemoveEscalation_KeepAll(list, s) == list

\* prev.filter(e => e.session_id !== sessionId)
RemoveEscalation(list, s) == SelectSeq(list, LAMBDA e : e # s)

\* handleLogin with a token that parses, the render that follows and the
\* connect effect: cleanup of the effect of the render before, then
\* connectWebSocket.  The login screen is shown while isAuthenticated is
\* false.
HandleLogin ==
    /\ ~ui.isAuthenticated
    /\ budget.logins < MaxLogins
    /\ InputRoom
    /\ LET info == budget.logins + 1
       IN  /\ ui' = [ui EXCEPT !.isAuthenticated = TRUE,
                               !.agentToken = info, !.agentInfo = info]
           /\ sockets' = ConnectWebSocket(CloseSocket(sockets, effectWs),
                                          TRUE, info)
    /\ timers' = ClearTimeout(timers, reconnectTimeoutRef)
    /\ effectWs' = ui.ws
    /\ budget' = [budget EXCEPT !.logins = @ + 1]
    /\ cop' = Cop("login", NULL, NULL)
    /\ UNCHANGED <<reconnectTimeoutRef, gateway>>
    /\ UNCHANGED store

\* handleLogout, the render that follows and the cleanup of the connect
\* effect
HandleLogout ==
    /\ ui.isAuthenticated
    /\ ui' = [ui EXCEPT !.isAuthenticated = FALSE, !.agentToken = NULL,
                        !.agentInfo = NULL, !.escalations = <<>>,
                        !.selectedSession = NULL]
    /\ sockets' = CloseSocket(CloseSocket(sockets, ui.ws), effectWs)
    /\ timers' = ClearTimeout(timers, reconnectTimeoutRef)
    /\ effectWs' = ui.ws
    /\ cop' = Cop("logout", ui.ws, NULL)
    /\ UNCHANGED <<reconnectTimeoutRef, gateway, budget>>
    /\ UNCHANGED store

\* what the gateway sends a console that has connected: the pending
\* escalations of that moment
InitialEscalations == Msg("initial_escalations", NULL, SeqOf(gateway.pending))

\* websocket.onopen; the gateway accepts the connection and sends the
\* pending escalations
OnOpen(k) ==
    /\ sockets[k].state = "connecting"
    /\ ui' = [ui EXCEPT !.connectionStatus = "connected", !.ws = k]
    /\ sockets' = [sockets EXCEPT ![k].state = "open",
                                  ![k].inbox = Append(@, InitialEscalations)]
    /\ cop' = Cop("open", k, NULL)
    /\ UNCHANGED <<reconnectTimeoutRef, effectWs, timers, gateway, budget>>
    /\ UNCHANGED store

\* websocket.onmessage for the message at the head of the queue
OnMessage(k) ==
    /\ sockets[k].inbox # <<>>
    /\ Head(sockets[k].inbox) # CloseEvent
    /\ LET m == Head(sockets[k].inbox)
       IN  /\ ui' = [ui EXCEPT !.escalations =
                        CASE m.type = "initial_escalations" ->
                                LoadEscalations(@, m.payload)
                          [] m.type = "escalation" -> AddEscalation(@, m.sid)
                          [] OTHER -> @]
           /\ sockets' = [sockets EXCEPT
                            ![k].inbox = Tail(@),
                            ![k].synced = @ \/ m.type = "initial_escalations"]
           /\ cop' = [Cop("message", k, m) EXCEPT
                        !.had = \E i \in DOMAIN ui.escalations :
                                    ui.escalations[i] = m.sid]
    /\ UNCHANGED <<reconnectTimeoutRef, effectWs, timers, gateway, budget>>
    /\ UNCHANGED store

\* websocket.onclose (after websocket.onerror when the connection failed):
\* the reconnect timer is set when the handler's isAuthenticated is true
OnClose(k) ==
    /\ sockets[k].inbox # <<>>
    /\ Head(sockets[k].inbox) = CloseEvent
    /\ ui' = [ui EXCEPT !.connectionStatus = "disconnected", !.ws = NULL]
    /\ sockets' = [sockets EXCEPT ![k].state = "closed", ![k].inbox = Tail(@)]
    /\ IF sockets[k].isAuthenticated
       THEN /\ timers' = Append(timers, [state |-> "pending", sock |-> k])
            /\ reconnectTimeoutRef' = Len(timers) + 1
       ELSE UNCHANGED <<timers, reconnectTimeoutRef>>
    /\ cop' = Cop("close", k, NULL)
    /\ UNCHANGED <<effectWs, gateway, budget>>
    /\ UNCHANGED store

\* the reconnect timer t fires, 5000 ms after onclose set it: connectWebSocket
\* of the render that defined the handlers of the closed socket
ReconnectTimer(t) ==
    /\ timers[t].state = "pending"
    /\ timers' = [timers EXCEPT ![t].state = "fired"]
    /\ sockets' = ConnectWebSocket(sockets,
                                   sockets[timers[t].sock].isAuthenticated,
                                   sockets[timers[t].sock].agentInfo)
    /\ cop' = [op |-> "reconnect", sock |-> timers[t].sock, msg |-> NULL]
    /\ UNCHANGED <<ui, reconnectTimeoutRef, effectWs, gateway, budget>>
    /\ UNCHANGED store

\* the network refuses the connection or drops it
NetworkClose(k) ==
    /\ sockets[k].state \in {"connecting", "open"}
    /\ budget.closes < MaxCloses
    /\ InputRoom
    /\ budget' = [budget EXCEPT !.closes = @ + 1]
    /\ sockets' = CloseSocket(sockets, k)
    /\ cop' = Cop("drop", k, NULL)
    /\ UNCHANGED <<ui, reconnectTimeoutRef, effectWs, timers, gateway>>
    /\ UNCHANGED store

\* a notice of the gateway counts against the budget of the run
NewNotice ==
    /\ budget.notices < MaxNotices
    /\ InputRoom
    /\ budget' = [budget EXCEPT !.notices = @ + 1]

\* a session is escalated: the gateway lists it and sends 'escalation' to
\* every connected console
GatewayEscalation(s) ==
    /\ s \notin gateway.pending
    /\ NewNotice
    /\ gateway' = [gateway EXCEPT !.pending = @ \cup {s}]
    /\ sockets' = Broadcast(sockets, Msg("escalation", s, <<>>))
    /\ cop' = Cop("escalated", NULL, NULL)
    /\ UNCHANGED <<ui, reconnectTimeoutRef, effectWs, timers>>
    /\ UNCHANGED store

\* delivery is at-least-once: the gateway sends the 'escalation' of a
\* pending session again
Redeliver(s) ==
    /\ s \in gateway.pending
    /\ NewNotice
    /\ sockets' = Broadcast(sockets, Msg("escalation", s, <<>>))
    /\ cop' = Cop("redelivered", NULL, NULL)
    /\ UNCHANGED <<ui, reconnectTimeoutRef, effectWs, timers, gateway>>
    /\ UNCHANGED store

\* the takeover of a pending session is accepted: the gateway unlists it and
\* sends the removal to every connected console; rs: the responses on
\* their way to the console after the step
Retract(s, rs) ==
    /\ gateway' = [pending |-> gateway.pending \ {s}, replies |-> rs]
    /\ sockets' = Broadcast(sockets, Msg("escalation_removed", s, <<>>))

\* another agent takes a pending session over
GatewayTakeover(s) ==
    /\ s \in gateway.pending
    /\ NewNotice
    /\ Retract(s, gateway.replies)
    /\ cop' = Cop("taken", NULL, NULL)
    /\ UNCHANGED <<ui, reconnectTimeoutRef, effectWs, timers>>
    /\ UNCHANGED store

\* the response of POST /human-takeover for session s on its way to the
\* console; ok is response.ok, false also when fetch fails
Reply(s, ok) == [sid |-> s, ok |-> ok]

\* handleTakeover for a card of the list, up to the await of fetch: the
\* request is sent.  It reaches the backend or not; the backend accepts the
\* takeover of a pending session, retracts the session and answers ok, and
\* rejects any other; the answer of an accepted takeover may be lost.
HandleTakeover(s) ==
    /\ ui.isAuthenticated
    /\ ui.agentToken # NULL /\ ui.agentInfo # NULL
    /\ \E i \in DOMAIN ui.escalations : ui.escalations[i] = s
    /\ \/ /\ s \in gateway.pending
          /\ NewNotice
          /\ \E ok \in BOOLEAN :
                Retract(s, gateway.replies \cup {Reply(s, ok)})
       \/ /\ gateway' = [gateway EXCEPT !.replies = @ \cup {Reply(s, FALSE)}]
          /\ UNCHANGED <<sockets, budget>>
    /\ cop' = Cop("takeover_request", NULL, Msg("request", s, <<>>))
    /\ UNCHANGED <<ui, reconnectTimeoutRef, effectWs, timers>>
    /\ UNCHANGED store

\* handleTakeover from the await on, for the response r: the throw and the
\* catch when the response is not ok, the two updates of the state when it
\* is (loadConversationHistory changes conversationHistory only)
TakeoverResponse(r) ==
    /\ r \in gateway.replies
    /\ gateway' = [gateway EXCEPT !.replies = @ \ {r}]
    /\ IF r.ok
       THEN /\ ui' = [ui EXCEPT !.escalations = RemoveEscalation(@, r.sid),
                                !.selectedSession = r.sid]
            /\ cop' = Cop("takeover_ok", NULL, Msg("response", r.sid, <<>>))
       ELSE /\ cop' = Cop("takeover_failed", NULL,
                          Msg("response", r.sid, <<>>))
            /\ UNCHANGED ui
    /\ UNCHANGED <<reconnectTimeoutRef, effectWs, sockets, timers, budget>>
    /\ UNCHANGED store

DoOnOpen == \E k \in DOMAIN sockets : OnOpen(k)

DoOnMessage == \E k \in DOMAIN sockets : OnMessage(k)

DoOnClose == \E k \in DOMAIN sockets : OnClose(k)

DoReconnectTimer == \E t \in DOMAIN timers : ReconnectTimer(t)

DoNetworkClose == \E k \in DOMAIN sockets : NetworkClose(k)

DoGatewayEscalation == \E s \in SessionIds : GatewayEscalation(s)

DoGatewayTakeover == \E s \in SessionIds : GatewayTakeover(s)

DoRedeliver == \E s \in SessionIds : Redeliver(s)

DoHandleTakeover == \E s \in SessionIds : HandleTakeover(s)

DoTakeoverResponse == \E r \in gateway.replies : TakeoverResponse(r)

ConsoleNext ==
    \/ HandleLogin
    \/ HandleLogout
    \/ DoOnOpen
    \/ DoOnMessage
    \/ DoOnClose
    \/ DoReconnectTimer
    \/ DoNetworkClose
    \/ DoGatewayEscalation
    \/ DoGatewayTakeover
    \/ DoRedeliver
    \/ DoHandleTakeover
    \/ DoTakeoverResponse

SpecConsole == Init /\ [][ConsoleNext]_vars

\* the event loop of the browser runs every handler whose event is queued
\* and every timer that is due, and a connection attempt ends
ConsoleFairness ==
    /\ WF_vars(DoOnOpen)
    /\ WF_vars(DoOnMessage)
    /\ WF_vars(DoOnClose)
    /\ WF_vars(DoReconnectTimer)

FairSpecConsole == Init /\ [][ConsoleNext]_vars /\ ConsoleFairness

\* ---- keepalive -------------------------------------------------------------
\* the socket the ping interval writes to: the effect sets the interval
\* when ws is set and connectionStatus is 'connected', and its callback
\* sends when ws.readyState is OPEN; NULL when no ping is sent
PingTarget ==
    IF /\ ui.ws # NULL
       /\ ui.connectionStatus = "connected"
       /\ sockets[ui.ws].state = "open"
    THEN ui.ws
    ELSE NULL

Pong == Msg("pong", NULL, <<>>)

\* a connection of the gateway after one keepalive interval: a ping is
\* answered by a pong; a connection without traffic for IdleMultiple
\* intervals is disconnected and no longer registered
AfterInterval(sock, pinged) ==
    IF sock.state # "open" THEN sock
    ELSE IF pinged
         THEN [sock EXCEPT !.missed = 0, !.inbox = Append(@, Pong)]
    ELSE IF sock.missed + 1 >= IdleMultiple
         THEN [sock EXCEPT !.missed = @ + 1, !.state = "closing",
                           !.inbox = Append(@, CloseEvent)]
    ELSE [sock EXCEPT !.missed = @ + 1]

\* one keepalive interval elapses: the callback of the ping interval runs
\* and the gateway looks at its connections
KeepaliveInterval ==
    /\ budget.intervals < MaxIntervals
    /\ InputRoom
    /\ budget' = [budget EXCEPT !.intervals = @ + 1]
    /\ sockets' = [k \in DOMAIN sockets |->
                        AfterInterval(sockets[k], k = PingTarget)]
    /\ cop' = Cop("interval", PingTarget, NULL)
    /\ UNCHANGED <<ui, reconnectTimeoutRef, effectWs, timers, gateway>>
    /\ UNCHANGED store

\* the console with its keepalive
KeepaliveNext ==
    \/ ConsoleNext
    \/ KeepaliveInterval

SpecKeepalive == Init /\ [][KeepaliveNext]_vars

\* the sockets one run can create: one for each login and one for each
\* close event, and a socket is closed by the network or by a logout
SocketIds == 1..(2 * MaxLogins + MaxCloses)

\* ---- properties ---------------------------------------------------------
\* the last step completed a call of op
Returned(op) == lastOp'.op = op

\* C1: of the takeover calls made for a session while it was escalated and
\* unassigned, at most one returns accepted, and the session is assigned to
\* the agent whose call was accepted
C1_SingleAcceptance ==
    \A s \in SessionIds :
        /\ Cardinality(accepted[s]) <= 1
        /\ \A a \in accepted[s] :
            SessionExists(s) /\ sessions[s].assigned_agent_id = a

\* C2: a takeover returns true, or changes the assigned agent of a session,
\* only when the session was escalated and unassigned at the moment the
\* takeover was applied; an assigned agent is never overwritten
C2_TakeoverGuard ==
    [][/\ (Returned("takeover") /\ lastOp'.ret = "true")
            => /\ SessionExists(lastOp'.sid)
               /\ sessions[lastOp'.sid].status = "escalated"
               /\ sessions[lastOp'.sid].assigned_agent_id = NULL
       /\ \A s \in DOMAIN sessions :
            sessions[s].assigned_agent_id # NULL
                => sessions'[s].assigned_agent_id
                        = sessions[s].assigned_agent_id]_vars

\* C3: a takeover of a session that does not exist, is not escalated or is
\* already assigned does not return true and changes no row of any table
C3_FailedTakeoverNoEffect ==
    [][(/\ Returned("takeover")
        /\ ~ (/\ SessionExists(lastOp'.sid)
              /\ sessions[lastOp'.sid].status = "escalated"
              /\ sessions[lastOp'.sid].assigned_agent_id = NULL))
            => (lastOp'.ret # "true" /\ db' = db)]_vars

\* C4: of one takeover call, the assignment of the session, the takeover
\* event and the update of the agent's counters are all applied or none is
C4_TakeoverAllOrNothing ==
    [][Returned("takeover") =>
        LET s == lastOp'.sid
            a == lastOp'.agent
            assigned == SessionExists(s) /\ sessions'[s].assigned_agent_id = a
            newly == SessionExists(s) /\ sessions[s].assigned_agent_id # a
                        /\ sessions'[s].assigned_agent_id = a
            logged == Len(events') = Len(events) + 1
            counted == /\ a \in Agents
                       /\ agents'[a].total_takeovers
                            = agents[a].total_takeovers + 1
                       /\ agents'[a].current_sessions
                            = agents[a].current_sessions + 1
        IN  /\ logged <=> counted
            /\ logged => assigned
            /\ newly => logged]_vars

\* C5: a user never has more than one session with status active or
\* escalated
C5_OneLiveSessionPerUser ==
    \A u \in UserKeys : Cardinality(LiveSessionsOf(u)) <= 1

\* C6: while a user keeps having an active or escalated session, every
\* create_or_get_session of that user returns the session id the previous
\* one returned, and inserts no session
C6_GetOrCreateIdempotent ==
    [][\A u \in UserKeys :
        (/\ Returned("goc")
         /\ sessions'[lastOp'.sid].user_id = u
         /\ lastGoc[u] # NULL)
            => (lastOp'.sid = lastGoc[u] /\ Len(sessions') = Len(sessions))]_vars

\* C7: no step changes the status of a resolved or closed session, and no
\* step moves an escalated session back to active
C7_TerminalIsFinal ==
    [][\A s \in DOMAIN sessions :
        /\ sessions[s].status \in TerminalStatus
            => sessions'[s].status = sessions[s].status
        /\ sessions[s].status = "escalated"
            => sessions'[s].status # "active"]_vars

\* C8: set_session_category, escalate_session, agent_takeover and log_event
\* on a closed session fail and change no row of any table
C8_ClosedIsImmutable ==
    [][(/\ lastOp'.op \in {"set_category", "escalate", "takeover", "log_event"}
        /\ SessionExists(lastOp'.sid)
        /\ sessions[lastOp'.sid].status = "closed")
            => (lastOp'.ret \in {"false", "error"} /\ db' = db)]_vars

\* C9: a session with an assigned agent is escalated or resolved (or was
\* closed after having been escalated); an active session has none
C9_AssignedOnlyWhenEscalated ==
    \A s \in DOMAIN sessions :
        sessions[s].assigned_agent_id # NULL
            => \/ sessions[s].status \in {"escalated", "resolved"}
               \/ sessions[s].status = "closed"
                    /\ sessions[s].escalated_at # NULL

\* C10: escalate_session on an escalated session returns true and leaves
\* the status, escalated_at, the events and the pending escalations as
\* they were
C10_EscalateIdempotent ==
    [][(/\ Returned("escalate")
        /\ SessionExists(lastOp'.sid)
        /\ sessions[lastOp'.sid].status = "escalated")
            => /\ lastOp'.ret = "true"
               /\ sessions'[lastOp'.sid].status = "escalated"
               /\ sessions'[lastOp'.sid].escalated_at
                    = sessions[lastOp'.sid].escalated_at
               /\ events' = events
               /\ PendingEscalations' = PendingEscalations]_vars

\* C11: escalate_session on an existing session that is active or escalated
\* returns true, leaves the session escalated with escalated_at the time of
\* the call, and adds exactly one event to the ledger: a system event of
\* that session whose content is the reason passed
C11_EscalateEffect ==
    [][(/\ Returned("escalate")
        /\ SessionExists(lastOp'.sid)
        /\ sessions[lastOp'.sid].status \in LiveStatus)
            => LET s == lastOp'.sid
                   e == events'[Len(events')]
               IN  /\ lastOp'.ret = "true"
                   /\ sessions'[s].status = "escalated"
                   /\ sessions'[s].escalated_at = clock
                   /\ Len(events') = Len(events) + 1
                   /\ SubSeq(events', 1, Len(events)) = events
                   /\ e.session_id = s
                   /\ e.type = "escalation"
                   /\ e.sender = "system"
                   /\ e.content = lastOp'.arg]_vars

\* the second call of a run escalated, with a reason, the session the first
\* call created
C11_Witness ==
    /\ calls = 2
    /\ lastOp.op = "escalate"
    /\ lastOp.ret = "true"
    /\ lastOp.arg # NULL
    /\ sessions[lastOp.sid].status = "escalated"
    /\ sessions[lastOp.sid].escalated_at # NULL
    /\ events[Len(events)].content = lastOp.arg

\* C12: when agent_takeover of session S by agent A returns true, S is
\* assigned to A and the call has added to the history of S an event of type
\* takeover that carries the id of A
C12_TakeoverRecorded ==
    [][(/\ Returned("takeover")
        /\ lastOp'.ret = "true"
        /\ SessionExists(lastOp'.sid))
            => LET s == lastOp'.sid
                   a == lastOp'.agent
               IN  /\ sessions'[s].assigned_agent_id = a
                   /\ \E i \in (DOMAIN events') \ (DOMAIN events) :
                        /\ events'[i].session_id = s
                        /\ events'[i].type = "takeover"
                        /\ events'[i].agent_id = a]_vars

\* a takeover was accepted for a session that another agent had taken
\* before: the session names the agent of the last call, and both events
\* are in the ledger
C12_Witness ==
    /\ lastOp.op = "takeover"
    /\ lastOp.ret = "true"
    /\ sessions[lastOp.sid].assigned_agent_id = lastOp.agent
    /\ events[Len(events)].agent_id = lastOp.agent
    /\ \E i \in DOMAIN events :
        /\ events[i].type = "takeover"
        /\ events[i].session_id = lastOp.sid
        /\ events[i].agent_id \notin {NULL, lastOp.agent}

\* C13: when agent_takeover by agent A returns true, current_sessions and
\* total_takeovers of A have grown by one each and A is busy; counters and
\* status of every other agent are as before
C13_TakeoverCounters ==
    [][(Returned("takeover") /\ lastOp'.ret = "true")
            => LET a == lastOp'.agent
               IN  /\ a \in Agents
                   /\ agents'[a].current_sessions
                        = agents[a].current_sessions + 1
                   /\ agents'[a].total_takeovers
                        = agents[a].total_takeovers + 1
                   /\ agents'[a].status = "busy"
                   /\ \A b \in Agents \ {a} :
                        /\ agents'[b].current_sessions
                            = agents[b].current_sessions
                        /\ agents'[b].total_takeovers
                            = agents[b].total_takeovers
                        /\ agents'[b].status = agents[b].status]_vars

\* an agent's second accepted takeover, while another agent has none
C13_Witness ==
    /\ lastOp.op = "takeover"
    /\ lastOp.ret = "true"
    /\ agents[lastOp.agent].current_sessions = 2
    /\ agents[lastOp.agent].total_takeovers = 2
    /\ agents[lastOp.agent].status = "busy"
    /\ \E b \in Agents : b # lastOp.agent /\ agents[b] = NewAgent

\* C14: no step changes or removes an event of the ledger: the events of
\* before are the first events of after, field by field
C14_AppendOnly ==
    [][/\ Len(events') >= Len(events)
       /\ \A i \in DOMAIN events : events'[i] = events[i]]_vars

\* an escalation or a takeover has added its event behind an event that
\* log_event had added
C14_Witness ==
    /\ Len(events) >= 2
    /\ lastOp.op \in {"escalate", "takeover"}
    /\ events[1].type = "user_message"
    /\ events[Len(events)].type \in {"escalation", "takeover"}

\* C15: log_event for an id that names no session fails and leaves the
\* ledger as it was; for an existing session it returns the id of the one
\* event it added to that session and sets the session's updated_at to the
\* time of the call
C15_AppendChecksSession ==
    [][Returned("log_event")
            => LET s == lastOp'.sid
               IN  IF SessionExists(s)
                   THEN /\ lastOp'.ret = "id"
                        /\ Len(events') = Len(events) + 1
                        /\ SubSeq(events', 1, Len(events)) = events
                        /\ events'[Len(events')].session_id = s
                        /\ sessions'[s].updated_at = clock
                   ELSE /\ lastOp'.ret = "error"
                        /\ events' = events]_vars

\* C16: get_session_history returns at most p_limit events of the session,
\* the oldest first, in the order they were inserted in, and has one
\* possible result in every state (events with the same creation time
\* included)
C16_HistoryInInsertionOrder ==
    \A s \in SessionIds, l \in Limits :
        /\ \A h \in GetSessionHistory(s, l) : Len(h) <= l
        /\ GetSessionHistory(s, l) = InsertionPrefix(s, l)

\* C17: a reader who asks for the page after the last event it has seen
\* gets no event twice and misses none: two successive pages, put together,
\* are the first events of the session in insertion order
C17_PagingCoversHistory ==
    \A s \in SessionIds, l \in Limits :
        \A p1 \in HistoryAfter(s, l, NULL) :
            \A p2 \in HistoryAfter(s, l, LastSeen(p1)) :
                /\ {p1[i] : i \in DOMAIN p1} \cap {p2[i] : i \in DOMAIN p2} = {}
                /\ (p1 \o p2) \in InsertionPrefix(s, 2 * l)

C18_RemovalReachesConsoles ==
    [][(cop'.op = "message" /\ cop'.msg.type = "escalation_removed")
            => \A i \in DOMAIN ui'.escalations :
                    ui'.escalations[i] # cop'.msg.sid]_vars

\* C20: a socket whose close event is handled while the agent is logged in
\* is followed, unless the agent logs out, by a newer socket that has
\* handled its initial_escalations; and handling initial_escalations leaves
\* the list of escalations equal to the list the message carries
C20_ReconnectResyncs ==
    /\ [][(cop'.op = "message" /\ cop'.msg.type = "initial_escalations")
            => ui'.escalations = cop'.msg.payload]_vars
    /\ \A k \in SocketIds :
        (/\ k \in DOMAIN sockets
         /\ sockets[k].state = "closed"
         /\ ui.isAuthenticated)
            ~> (\/ ~ui.isAuthenticated
                \/ \E j \in DOMAIN sockets : j > k /\ sockets[j].synced)

\* the agent logged in once and stayed; the network dropped the first
\* connection after a session had been listed; the reconnect timer opened
\* the second, whose snapshot, taken after the session was taken over, has
\* just replaced the list
C20_Witness ==
    /\ ui.isAuthenticated
    /\ budget.logins = 1
    /\ budget.closes = 1
    /\ budget.notices = 2
    /\ Len(sockets) = 2
    /\ sockets[1].state = "closed"
    /\ \E t \in DOMAIN timers : timers[t].state = "fired" /\ timers[t].sock = 1
    /\ cop.op = "message"
    /\ cop.sock = 2
    /\ cop.msg.type = "initial_escalations"
    /\ cop.msg.payload = <<>>
    /\ ui.escalations = <<>>
    /\ gateway.pending = {}

\* C21: set_session_category for an id that names no session returns false
\* and changes no row; for an existing session it returns true and leaves
\* the session with the category passed, whatever category it had (the
\* same one included); and no other step changes the category of a session
C21_SetCategoryLastWriteWins ==
    [][/\ Returned("set_category")
            => LET s == lastOp'.sid
               IN  IF SessionExists(s)
                   THEN /\ lastOp'.ret = "true"
                        /\ sessions'[s].selected_category = lastOp'.arg
                        /\ \A t \in (DOMAIN sessions) \ {s} :
                                sessions'[t] = sessions[t]
                        /\ <<users, events, agents>>' = <<users, events, agents>>
                   ELSE /\ lastOp'.ret = "false"
                        /\ db' = db
       /\ \A s \in DOMAIN sessions :
            sessions'[s].selected_category # sessions[s].selected_category
                => Returned("set_category") /\ lastOp'.sid = s]_vars

\* a call has replaced the category an earlier call had selected by
\* another one
C21_Witness ==
    /\ lastOp.op = "set_category"
    /\ lastOp.ret = "true"
    /\ lastOp.old \notin {NULL, lastOp.arg}
    /\ sessions[lastOp.sid].selected_category = lastOp.arg

\* C22: create_or_get_session sets last_seen_at of the user to the time of
\* the call in every call, gives a user without name the name passed, and
\* leaves the name of a user who has one as it is, whatever name is passed
C22_NameMergedOnlyIfUnset ==
    [][\A p \in Procs :
        (procs[p].pc = "goc" /\ procs'[p].pc = "idle")
            => LET u == procs[p].uid
               IN  /\ users'[u].last_seen_at = procs[p].now
                   /\ users'[u].name =
                        IF users[u].exists /\ users[u].name # NULL
                        THEN users[u].name
                        ELSE procs[p].name]_vars

\* C24: log_api_cost with token counts that are not negative, an amount
\* above zero and the ids of an existing session and an existing event
\* adds exactly one cost record, with the values passed; a call with a
\* negative token count, an amount of zero or less, or a session or event
\* reference that names no row fails and adds none; and no step changes or
\* removes a cost record
C24_RecordCostValidates ==
    [][/\ Returned("log_api_cost")
            => LET a == lastOp'.arg
                   s == lastOp'.sid
               IN  IF /\ a.input_tokens >= 0 /\ a.output_tokens >= 0
                      /\ a.cost_usd > 0
                      /\ SessionExists(s) /\ EventExists(a.event_id)
                   THEN /\ lastOp'.ret = "id"
                        /\ costs' = Append(costs,
                                NewCost(s, a.event_id, a.input_tokens,
                                        a.output_tokens, a.cost_usd))
                   ELSE /\ lastOp'.ret = "error"
                        /\ costs' = costs
       /\ Len(costs') >= Len(costs)
       /\ \A i \in DOMAIN costs : costs'[i] = costs[i]]_vars

\* C25: agent_takeover returns true exactly when the call has assigned the
\* session to the agent: a call that returns false or fails has left the
\* assigned agent of every session as it was, and a call that returns true
\* has updated the row of its session
C25_TakeoverReturnMatchesAssignment ==
    [][Returned("takeover")
            => LET s == lastOp'.sid
                   a == lastOp'.agent
               IN  IF lastOp'.ret = "true"
                   THEN /\ SessionExists(s)
                        /\ sessions'[s].assigned_agent_id = a
                   ELSE \A t \in DOMAIN sessions :
                            sessions'[t].assigned_agent_id
                                = sessions[t].assigned_agent_id]_vars

\* the sessions assigned to agent a
AssignedTo(a) ==
    {s \in DOMAIN sessions : sessions[s].assigned_agent_id = a}

\* the takeover events that carry the id of agent a
TakeoverEventsOf(a) ==
    {i \in DOMAIN events :
        events[i].type = "takeover" /\ events[i].agent_id = a}

\* C29: for every agent, current_sessions is the number of sessions
\* assigned to the agent and total_takeovers is the number of takeover
\* events that carry the agent's id
C29_CountersMatchAssignments ==
    \A a \in Agents :
        /\ agents[a].current_sessions = Cardinality(AssignedTo(a))
        /\ agents[a].total_takeovers = Cardinality(TakeoverEventsOf(a))

\* the sockets that are connecting or open
LiveSockets ==
    {k \in DOMAIN sockets : sockets[k].state \in {"connecting", "open"}}

\* the reconnect timers that are set and have neither fired nor been cleared
PendingTimers == {t \in DOMAIN timers : timers[t].state = "pending"}

\* C26: while the agent is logged out, from handleLogout to the next login,
\* the console creates no WebSocket and no reconnect timer fires (a
\* reconnect that a close event scheduled shows when its timer fires)
C26_NoReconnectAfterLogout ==
    [][(~ui.isAuthenticated /\ ~ui'.isAuthenticated)
            => /\ Len(sockets') = Len(sockets)
               /\ \A t \in DOMAIN timers :
                    timers'[t].state = "fired" => timers[t].state = "fired"]_vars

\* C27: the console never holds more than one socket that is connecting or
\* open, nor more than one pending reconnect timer
C27_OneSocketOneTimer ==
    /\ Cardinality(LiveSockets) <= 1
    /\ Cardinality(PendingTimers) <= 1

\* no two entries of the list are of the same session
NoDuplicates(list) ==
    \A i, j \in DOMAIN list : i # j => list[i] # list[j]

\* C28: the list of escalations of the console never holds two entries of
\* the same session, and handling an 'escalation' for a session the list
\* holds leaves the list as it was
C28_NoDuplicateEscalations ==
    /\ []NoDuplicates(ui.escalations)
    /\ [][(/\ cop'.op = "message"
            /\ cop'.msg.type = "escalation"
            /\ \E i \in DOMAIN ui.escalations :
                    ui.escalations[i] = cop'.msg.sid)
                => ui'.escalations = ui.escalations]_vars

\* the console has handled an 'escalation' that the gateway sent a second
\* time: the list holds the session once
C28_Witness ==
    /\ cop.op = "message"
    /\ cop.msg.type = "escalation"
    /\ cop.had
    /\ Cardinality({i \in DOMAIN ui.escalations :
                        ui.escalations[i] = cop.msg.sid}) = 1

\* C30: the part of handleTakeover that sends the request changes no state
\* of the console; the part that handles a response that is not ok (or a
\* fetch that failed) leaves the list of escalations and selectedSession as
\* they were; the part that handles an ok response takes the session, and
\* nothing else, off the list and makes it the selected session
C30_TakeoverChangesStateOnSuccessOnly ==
    [][/\ cop'.op \in {"takeover_request", "takeover_failed"} => ui' = ui
       /\ cop'.op = "takeover_ok"
            => LET s == cop'.msg.sid
               IN  /\ ui'.escalations
                        = SelectSeq(ui.escalations, LAMBDA e : e # s)
                   /\ \A i \in DOMAIN ui'.escalations :
                        ui'.escalations[i] # s
                   /\ ui'.selectedSession = s]_vars

\* the takeover of a listed session was rejected, another agent having
\* taken it: the list still holds the session and none is selected
C30_Witness ==
    /\ cop.op = "takeover_failed"
    /\ ui.isAuthenticated
    /\ \E i \in DOMAIN ui.escalations : ui.escalations[i] = cop.msg.sid
    /\ cop.msg.sid \notin gateway.pending
    /\ ui.selectedSession = NULL

\* C23: at every keepalive interval a ping is sent on every connection of
\* the console that is open, and the gateway answers it with a pong; no
\* connection stays registered once IdleMultiple intervals have gone by
\* without traffic on it; and nothing is sent to a connection that is no
\* longer registered
C23_KeepalivePingsEveryConnection ==
    /\ [][cop'.op = "interval"
            => \A k \in DOMAIN sockets :
                sockets[k].state = "open"
                    => /\ sockets'[k].missed = 0
                       /\ sockets'[k].inbox = Append(sockets[k].inbox, Pong)]_vars
    /\ [](\A k \in DOMAIN sockets :
            sockets[k].state = "open" => sockets[k].missed < IdleMultiple)
    /\ [][\A k \in DOMAIN sockets :
            sockets[k].state \in {"closing", "closed"}
                => Len(sockets'[k].inbox) <= Len(sockets[k].inbox)]_vars

====
